---- MODULE Spec2Model ----
(***************************************************************************)
(* SocietySim: the daily pipeline run_day and the WorldState it threads.   *)
(*                                                                         *)
(* Python objects live on a heap: a WorldState, a list, a Company, a Party *)
(* and a CitizenSegment are mutable objects with an identity (an address   *)
(* = an index into the sequence that holds the objects of its class).      *)
(* Policy, Event and DaySummary values are held in the lists by value.     *)
(* Floats are integers here; fields in [0,1] are stored in hundredths.     *)
(***************************************************************************)
EXTENDS Integers, Sequences, FiniteSets, TLC

VARIABLES
    worlds,     \* heap of WorldState objects: Seq of records
    lists,      \* heap of list objects: Seq of sequences
    company,    \* heap of Company objects
    party,      \* heap of Party objects
    segment,    \* heap of CitizenSegment objects
    roots,      \* the WorldState addresses the caller holds
    calls,      \* calls[w]: number of run_day calls that led from world 1 to w
    src,        \* how world 1 was built: "create_initial_world" or "WorldState"
    last,       \* the last operation, its argument and its result
    nruns,      \* run_day calls so far
    nmut,       \* caller mutations so far
    pols,       \* heap of the Policy objects under test (Policy.tick, assignments)
    pinfo,      \* pinfo[a]: the value object a's line started from, and the ticks since
    plast,      \* the last operation on a Policy object
    nticks,     \* tick calls so far
    nassign,    \* Policy field assignments so far
    cur,        \* cur[s]: the address of the WorldState simulation s holds now
    ops         \* ops[s]: the operations simulation s has run, in order

\* the state of the Policy objects under test
pvars == <<pols, pinfo, plast, nticks, nassign>>

\* the state of the worlds
wvars == <<worlds, lists, company, party, segment, roots, calls, src, last, nruns, nmut>>

\* the state of two simulations started side by side
xvars == <<cur, ops>>

vars == <<worlds, lists, company, party, segment, roots, calls, src, last, nruns, nmut, pols, pinfo, plast, nticks, nassign, cur, ops>>

\* ---------------------------------------------------------------- bounds
MaxRuns == 2
MaxMut == 1

\* ---------------------------------------------------------------- helpers
Max(a, b) == IF a >= b THEN a ELSE b

Range(s) == {s[i] : i \in 1..Len(s)}

\* ---------------------------------------------------------------- enums
Sector == {"housing", "food", "technology", "construction", "healthcare", "finance"}

IdeologicalBias == {"left", "center_left", "center", "center_right", "right"}

\* ---------------------------------------------------------------- entities
\* Company(...): the field defaults of the constructor
Company(id, name, sector, base_quality, base_price_level, reputation, stock_price, cash) ==
    [id |-> id, name |-> name, sector |-> sector, base_quality |-> base_quality,
     base_price_level |-> base_price_level, reputation |-> reputation,
     stock_price |-> stock_price, cash |-> cash,
     last_day_units_sold |-> 0, last_day_revenue |-> 0]

Party(id, name, ideology, popularity, reputation, in_government) ==
    [id |-> id, name |-> name, ideology |-> ideology, popularity |-> popularity,
     reputation |-> reputation, in_government |-> in_government]

CitizenSegment(id, name, size, wealth_per_capita, satisfaction, ideological_bias, preferred_party_id, consumption_rate) ==
    [id |-> id, name |-> name, size |-> size, wealth_per_capita |-> wealth_per_capita,
     satisfaction |-> satisfaction, preferred_party_id |-> preferred_party_id,
     ideological_bias |-> ideological_bias, consumption_rate |-> consumption_rate]

\* float("nan"): a float that every comparison answers False on; it is held
\* as a number outside every range the fields use
NaN == 1000000

\* a < b, a > b, a <= b, a >= b on floats
float_lt(a, b) == a # NaN /\ b # NaN /\ a < b

float_gt(a, b) == a # NaN /\ b # NaN /\ a > b

float_le(a, b) == a # NaN /\ b # NaN /\ a <= b

float_ge(a, b) == a # NaN /\ b # NaN /\ a >= b

\* the clamping field validators of reputation, popularity and satisfaction
validate_range(v) == IF float_lt(v, 0) THEN 0 ELSE IF float_gt(v, 100) THEN 100 ELSE v

\* ---------------------------------------------------------------- policy
PolicyEffect(target_sector, subsidy_amount, reputation_boost) ==
    [target_sector |-> target_sector, price_modifier |-> 100, tax_rate_delta |-> 0,
     subsidy_amount |-> subsidy_amount, reputation_boost |-> reputation_boost]

Policy(id, proposed_by_party_id, effect, duration_days, remaining_days) ==
    [id |-> id, name |-> id, description |-> id,
     proposed_by_party_id |-> proposed_by_party_id, effect |-> effect,
     duration_days |-> duration_days, remaining_days |-> remaining_days,
     is_active |-> TRUE]

\* a bug: a policy that is switched off stays off
tick_sticky(p) ==
    LET new_remaining == Max(0, p.remaining_days - 1)
        new_is_active == p.is_active /\ new_remaining > 0
    IN  [p EXCEPT !.remaining_days = new_remaining, !.is_active = new_is_active]

\* a bug: the decrement is not floored at 0
tick_nofloor(p) ==
    LET new_remaining == p.remaining_days - 1
        new_is_active == new_remaining > 0
    IN  [p EXCEPT !.remaining_days = new_remaining, !.is_active = new_is_active]

\* a bug: the policy is switched off one tick late (>= for >)
tick_late(p) ==
    LET new_remaining == Max(0, p.remaining_days - 1)
        new_is_active == p.remaining_days > 0
    IN  [p EXCEPT !.remaining_days = new_remaining, !.is_active = new_is_active]

\* Policy.tick
tick(p) ==
    LET new_remaining == Max(0, p.remaining_days - 1)
        new_is_active == new_remaining > 0
    IN  [p EXCEPT !.remaining_days = new_remaining, !.is_active = new_is_active]

\* ---------------------------------------------------------------- event
EventEffect(reputation_delta, popularity_delta, stock_price_delta_percent, satisfaction_delta) ==
    [reputation_delta |-> reputation_delta, popularity_delta |-> popularity_delta,
     stock_price_delta_percent |-> stock_price_delta_percent,
     satisfaction_delta |-> satisfaction_delta]

Event(id, day, event_type, target_company_ids, target_party_ids, target_sectors, effect) ==
    [id |-> id, day |-> day, event_type |-> event_type, narrative |-> id,
     target_company_ids |-> target_company_ids, target_party_ids |-> target_party_ids,
     target_sectors |-> target_sectors, effect |-> effect]

\* ---------------------------------------------------------------- summary
PartySummary(party_id, name, popularity, reputation) ==
    [party_id |-> party_id, name |-> name, popularity |-> popularity, reputation |-> reputation]

CompanySummary(company_id, name, stock_price, reputation, revenue) ==
    [company_id |-> company_id, name |-> name, stock_price |-> stock_price,
     reputation |-> reputation, revenue |-> revenue]

DaySummary(day, total_revenue, average_stock_price, average_satisfaction, parties, top_companies, events_count, active_policies_count) ==
    [day |-> day, total_revenue |-> total_revenue,
     average_stock_price |-> average_stock_price,
     average_satisfaction |-> average_satisfaction, parties |-> parties,
     top_companies |-> top_companies, events_count |-> events_count,
     active_policies_count |-> active_policies_count]

\* ---------------------------------------------------------------- factory
_create_initial_companies ==
    << Company("housing-001", "InmoHogar", "housing", 70, 60, 55, 120, 2000000),
       Company("food-001", "AlimentosFrescos", "food", 80, 40, 60, 80, 1500000),
       Company("food-002", "SuperEconomico", "food", 50, 20, 45, 50, 800000),
       Company("tech-001", "TechInnovadora", "technology", 90, 80, 70, 200, 5000000),
       Company("tech-002", "SoftwareSoluciones", "technology", 70, 50, 50, 90, 1200000),
       Company("const-001", "ConstruyeMas", "construction", 60, 50, 48, 75, 1800000),
       Company("health-001", "SaludTotal", "healthcare", 85, 70, 65, 150, 3000000),
       Company("finance-001", "BancoSeguro", "finance", 75, 60, 55, 180, 10000000) >>

\* a bug: two parties are marked as being in government
_create_initial_parties_coalition ==
    << Party("party-left", "Partido Progresista", "left", 22, 52, TRUE),
       Party("party-center-left", "Partido Socialdemocrata", "center_left", 28, 55, TRUE),
       Party("party-center-right", "Partido Liberal", "center_right", 25, 50, FALSE),
       Party("party-right", "Partido Conservador", "right", 20, 48, FALSE) >>

_create_initial_parties ==
    << Party("party-left", "Partido Progresista", "left", 22, 52, FALSE),
       Party("party-center-left", "Partido Socialdemocrata", "center_left", 28, 55, TRUE),
       Party("party-center-right", "Partido Liberal", "center_right", 25, 50, FALSE),
       Party("party-right", "Partido Conservador", "right", 20, 48, FALSE) >>

_create_initial_citizen_segments ==
    << CitizenSegment("seg-upper", "Clase Alta", 500000, 200000, 70, "center_right", "party-center-right", 15),
       CitizenSegment("seg-middle", "Clase Media", 3000000, 50000, 55, "center", "party-center-left", 10),
       CitizenSegment("seg-working", "Clase Trabajadora", 5000000, 20000, 45, "center_left", "party-center-left", 8),
       CitizenSegment("seg-precarious", "Desempleados y Precarios", 1500000, 5000, 30, "left", "party-left", 5) >>

\* the arguments create_initial_world passes to WorldState
create_initial_world ==
    [day |-> 0, companies |-> _create_initial_companies,
     parties |-> _create_initial_parties,
     citizen_segments |-> _create_initial_citizen_segments,
     active_policies |-> <<>>, events_today |-> <<>>, history |-> <<>>]

\* ---------------------------------------------------------------- WorldState
\* a bug: the check of the parties is missing
validate_minimum_entities_noparties(args) ==
    IF Len(args.companies) < 1 THEN "WorldState requiere al menos 1 empresa"
    ELSE IF Len(args.citizen_segments) < 1 THEN "WorldState requiere al menos 1 segmento ciudadano"
    ELSE "ok"

\* WorldState.validate_minimum_entities: the error raised, or "ok"
validate_minimum_entities(args) ==
    IF Len(args.companies) < 1 THEN "WorldState requiere al menos 1 empresa"
    ELSE IF Len(args.parties) < 1 THEN "WorldState requiere al menos 1 partido politico"
    ELSE IF Len(args.citizen_segments) < 1 THEN "WorldState requiere al menos 1 segmento ciudadano"
    ELSE "ok"

\* WorldState(...): the constructor accepts the arguments (day has ge=0)
WorldStateAccepts(args) ==
    /\ args.day >= 0
    /\ validate_minimum_entities(args) = "ok"

\* the fields of a WorldState object; the six list fields hold list addresses
WorldState(day, companies, parties, citizen_segments, active_policies, events_today, history) ==
    [day |-> day, companies |-> companies, parties |-> parties,
     citizen_segments |-> citizen_segments, active_policies |-> active_policies,
     events_today |-> events_today, history |-> history]

\* the value of the world at address w of a heap, with every address followed
View(ws, ls, co, pa, se, w) ==
    [day |-> ws[w].day,
     companies |-> [i \in 1..Len(ls[ws[w].companies]) |-> co[ls[ws[w].companies][i]]],
     parties |-> [i \in 1..Len(ls[ws[w].parties]) |-> pa[ls[ws[w].parties][i]]],
     citizen_segments |-> [i \in 1..Len(ls[ws[w].citizen_segments]) |->
                              se[ls[ws[w].citizen_segments][i]]],
     active_policies |-> ls[ws[w].active_policies],
     events_today |-> ls[ws[w].events_today],
     history |-> ls[ws[w].history]]

\* the value of world w now
DeepView(w) == View(worlds, lists, company, party, segment, w)

\* a bug: the scan keeps going and returns the last company with that id
get_company_by_id_last(w, company_id) ==
    LET cs == DeepView(w).companies
        hit == {i \in 1..Len(cs) : cs[i].id = company_id}
    IN  IF hit = {} THEN "None" ELSE cs[CHOOSE i \in hit : \A j \in hit : i >= j]

\* WorldState.get_company_by_id: the first company with that id, or "None"
get_company_by_id(w, company_id) ==
    LET cs == DeepView(w).companies
        hit == {i \in 1..Len(cs) : cs[i].id = company_id}
    IN  IF hit = {} THEN "None" ELSE cs[CHOOSE i \in hit : \A j \in hit : i <= j]

\* WorldState.get_party_by_id: the first party with that id, or "None"
get_party_by_id(w, party_id) ==
    LET ps == DeepView(w).parties
        hit == {i \in 1..Len(ps) : ps[i].id = party_id}
    IN  IF hit = {} THEN "None" ELSE ps[CHOOSE i \in hit : \A j \in hit : i <= j]

\* WorldState.get_segment_by_id: the first segment with that id, or "None"
get_segment_by_id(w, segment_id) ==
    LET ss == DeepView(w).citizen_segments
        hit == {i \in 1..Len(ss) : ss[i].id = segment_id}
    IN  IF hit = {} THEN "None" ELSE ss[CHOOSE i \in hit : \A j \in hit : i <= j]

\* ---------------------------------------------------------------- inputs
\* worlds built by hand, as the tests build them
SampleCompanyA == Company("company-1", "Company 1", "technology", 70, 50, 50, 100, 1000000)

SampleCompanyB == Company("company-2", "Company 2", "food", 60, 40, 50, 200, 0)

SampleParty == Party("test-party", "Test Party", "center", 20, 50, FALSE)

SampleSegment == CitizenSegment("test-segment", "Test Segment", 1000, 10000, 50, "center", "None", 10)

\* a policy on its last day, proposed by an existing party
SamplePolicyLastDay == Policy("pol-001", "test-party", PolicyEffect("technology", 1000, 5), 3, 1)

\* a policy with days left, proposed by a party that does not exist
SamplePolicyDangling == Policy("pol-002", "no-such-party", PolicyEffect("None", 0, 0), 3, 2)

\* an event of the day whose targets do not exist
SampleEventDangling ==
    Event("evt-001", 0, "company_scandal", <<"no-such-company">>, <<"no-such-party">>,
          <<>>, EventEffect(-10, -5, -15, 0))

SampleSummary == DaySummary(0, 0, 100, 50, <<>>, <<>>, 0, 0)

\* the argument tuples offered to the WorldState constructor: a world of day 0
\* comes without history, a later one with the summary of day 0
SampleArgs ==
    {a \in [day : {-1, 0, 1},
            companies : {<<>>, <<SampleCompanyB>>, <<SampleCompanyA, SampleCompanyB>>},
            parties : {<<>>, <<SampleParty>>},
            citizen_segments : {<<>>, <<SampleSegment>>},
            active_policies : {<<>>, <<SamplePolicyLastDay>>, <<SamplePolicyDangling, SamplePolicyLastDay>>},
            events_today : {<<>>, <<SampleEventDangling>>},
            history : {<<>>, <<SampleSummary>>}] :
        (a.history = <<>>) <=> (a.day <= 0)}

\* ---------------------------------------------------------------- Init
\* the heap after WorldState(**args) returned the object at address 1
Construct(args, how) ==
    /\ company = args.companies
    /\ party = args.parties
    /\ segment = args.citizen_segments
    /\ lists = << [i \in 1..Len(args.companies) |-> i],
                  [i \in 1..Len(args.parties) |-> i],
                  [i \in 1..Len(args.citizen_segments) |-> i],
                  args.active_policies, args.events_today, args.history >>
    /\ worlds = << WorldState(args.day, 1, 2, 3, 4, 5, 6) >>
    /\ roots = {1}
    /\ calls = (1 :> 0)
    /\ src = how
    /\ last = [op |-> how, arg |-> 0, ret |-> 1, raised |-> FALSE]
    /\ nruns = 0
    /\ nmut = 0
    /\ pols = <<>>
    /\ pinfo = <<>>
    /\ plast = [op |-> "none", recv |-> 0, ret |-> 0, raised |-> FALSE]
    /\ nticks = 0
    /\ nassign = 0
    /\ cur = <<>>
    /\ ops = <<>>

Init ==
    \/ /\ WorldStateAccepts(create_initial_world)
       /\ Construct(create_initial_world, "create_initial_world")
    \/ \E args \in SampleArgs :
          /\ WorldStateAccepts(args)
          /\ Construct(args, "WorldState")

\* ---------------------------------------------------------------- run_day
\* The pipeline works on a machine state m: the heap, the address m.w of the
\* WorldState the local variable `world` is bound to, and m.err, whether an
\* exception is propagating.

\* world.model_copy(update=...): a new object with the same field values (the
\* same list addresses), the updated fields replaced, nothing validated
model_copy(obj, update) ==
    [f \in DOMAIN obj |-> IF f \in DOMAIN update THEN update[f] ELSE obj[f]]

\* a bug: the phase assigns the field on its argument and returns the argument
_generate_events_phase_inplace(m) ==
    LET fresh == Len(m.lists) + 1
    IN  [m EXCEPT !.lists = Append(@, <<>>),
                  !.worlds[m.w].events_today = fresh]

\* a bug: the phase copies the world without clearing the events of the day
_generate_events_phase_keep(m) ==
    [m EXCEPT !.worlds = Append(@, model_copy(m.worlds[m.w], [day |-> m.worlds[m.w].day])),
              !.w = Len(m.worlds) + 1]

\* phase 1: return world.model_copy(update={"events_today": []})
_generate_events_phase(m) ==
    LET fresh == Len(m.lists) + 1
    IN  [m EXCEPT !.lists = Append(@, <<>>),
                  !.worlds = Append(@, model_copy(m.worlds[m.w], [events_today |-> fresh])),
                  !.w = Len(m.worlds) + 1]

\* phase 2: return world
_apply_events_phase(m) == m

\* a bug: the phase dereferences the proposing party without a None check
_apply_policies_phase_strict(m) ==
    LET ps == m.lists[m.worlds[m.w].active_policies]
        ids == {m.party[a].id : a \in Range(m.lists[m.worlds[m.w].parties])}
    IN  IF \E i \in 1..Len(ps) : ps[i].proposed_by_party_id \notin ids
        THEN [m EXCEPT !.err = TRUE]
        ELSE m

\* phase 3: return world
_apply_policies_phase(m) == m

\* a bug: the phase books a day of sales on every company of the world
_simulate_market_phase_sell(m) ==
    LET cs == Range(m.lists[m.worlds[m.w].companies])
    IN  [m EXCEPT !.company = [a \in DOMAIN m.company |->
                                  IF a \in cs
                                  THEN [m.company[a] EXCEPT !.last_day_units_sold = 1,
                                                            !.last_day_revenue = 100,
                                                            !.cash = @ + 100]
                                  ELSE m.company[a]]]

\* phase 4: return world
_simulate_market_phase(m) == m

\* a bug: the phase drops the companies that ran out of cash
_update_entities_phase_prune(m) ==
    LET old == m.lists[m.worlds[m.w].companies]
        kept == SelectSeq(old, LAMBDA a : m.company[a].cash > 0)
        fresh == Len(m.lists) + 1
    IN  [m EXCEPT !.lists = Append(@, kept),
                  !.worlds = Append(@, model_copy(m.worlds[m.w], [companies |-> fresh])),
                  !.w = Len(m.worlds) + 1]

\* phase 5: return world
_update_entities_phase(m) == m

\* a bug: the phase stores the day's summary as the whole history
_record_summary_phase_replace(m) ==
    LET summary == DaySummary(m.worlds[m.w].day, 0, 0, 0, <<>>, <<>>, 0, 0)
        fresh == Len(m.lists) + 1
    IN  [m EXCEPT !.lists = Append(@, <<summary>>),
                  !.worlds = Append(@, model_copy(m.worlds[m.w], [history |-> fresh])),
                  !.w = Len(m.worlds) + 1]

\* phase 6: return world
_record_summary_phase(m) == m

\* a bug: the day is left as it was
_increment_day_not(m) ==
    [m EXCEPT !.worlds = Append(@, model_copy(m.worlds[m.w], [day |-> m.worlds[m.w].day])),
              !.w = Len(m.worlds) + 1]

\* a bug (for the sharing the code has): the copy is made with deep=True
_increment_day_deep(m) ==
    LET old == m.worlds[m.w]
        nl == Len(m.lists)
        nc == Len(m.company)
        np == Len(m.party)
        ns == Len(m.segment)
        cs == m.lists[old.companies]
        ps == m.lists[old.parties]
        ss == m.lists[old.citizen_segments]
    IN  [m EXCEPT !.company = @ \o [i \in 1..Len(cs) |-> m.company[cs[i]]],
                  !.party = @ \o [i \in 1..Len(ps) |-> m.party[ps[i]]],
                  !.segment = @ \o [i \in 1..Len(ss) |-> m.segment[ss[i]]],
                  !.lists = @ \o << [i \in 1..Len(cs) |-> nc + i],
                                    [i \in 1..Len(ps) |-> np + i],
                                    [i \in 1..Len(ss) |-> ns + i],
                                    m.lists[old.active_policies],
                                    m.lists[old.events_today],
                                    m.lists[old.history] >>,
                  !.worlds = Append(@, WorldState(old.day + 1, nl + 1, nl + 2, nl + 3,
                                                  nl + 4, nl + 5, nl + 6)),
                  !.w = Len(m.worlds) + 1]

\* a bug: the day is taken from a module-level counter of the worlds created
_increment_day_counter(m) ==
    [m EXCEPT !.worlds = Append(@, model_copy(m.worlds[m.w], [day |-> Len(m.worlds)])),
              !.w = Len(m.worlds) + 1]

\* return world.model_copy(update={"day": world.day + 1})
_increment_day(m) ==
    [m EXCEPT !.worlds = Append(@, model_copy(m.worlds[m.w], [day |-> m.worlds[m.w].day + 1])),
              !.w = Len(m.worlds) + 1]

\* run_day(world): the six phases in order, then the day increment; a
\* statement is skipped while an exception propagates
run_day(m0) ==
    LET m1 == IF m0.err THEN m0 ELSE _generate_events_phase(m0)
        m2 == IF m1.err THEN m1 ELSE _apply_events_phase(m1)
        m3 == IF m2.err THEN m2 ELSE _apply_policies_phase(m2)
        m4 == IF m3.err THEN m3 ELSE _simulate_market_phase(m3)
        m5 == IF m4.err THEN m4 ELSE _update_entities_phase(m4)
        m6 == IF m5.err THEN m5 ELSE _record_summary_phase(m5)
    IN  IF m6.err THEN m6 ELSE _increment_day(m6)

\* the machine state on entry of a call with the world at address w
Enter(w) ==
    [worlds |-> worlds, lists |-> lists, company |-> company, party |-> party,
     segment |-> segment, w |-> w, err |-> FALSE]

\* ---------------------------------------------------------------- actions
\* new_world = run_day(world), for a world the caller holds
RunDay(w) ==
    /\ nruns < MaxRuns
    /\ LET m == run_day(Enter(w))
       IN  /\ worlds' = m.worlds
           /\ lists' = m.lists
           /\ company' = m.company
           /\ party' = m.party
           /\ segment' = m.segment
           /\ roots' = IF m.err THEN roots ELSE roots \cup {m.w}
           /\ calls' = IF m.err THEN calls ELSE (m.w :> calls[w] + 1) @@ calls
           /\ last' = [op |-> "run_day", arg |-> w,
                       ret |-> IF m.err THEN 0 ELSE m.w, raised |-> m.err]
    /\ nruns' = nruns + 1
    /\ UNCHANGED <<src, nmut>>
    /\ UNCHANGED pvars
    /\ UNCHANGED xvars

\* the values a caller assigns to a clamped field
SampleValues == {-10, 40, 150}

\* the list positions of the entities a caller assigns to
SampleIndexes == {1, 2}

\* world.companies[i].reputation = v (validate_assignment runs the validator)
AssignCompanyReputation(w, i, v) ==
    /\ nmut < MaxMut
    /\ i \in 1..Len(lists[worlds[w].companies])
    /\ company' = [company EXCEPT ![lists[worlds[w].companies][i]].reputation = validate_range(v)]
    /\ last' = [op |-> "assign_company", arg |-> w, ret |-> i, raised |-> FALSE]
    /\ nmut' = nmut + 1
    /\ UNCHANGED <<worlds, lists, party, segment, roots, calls, src, nruns>>
    /\ UNCHANGED pvars
    /\ UNCHANGED xvars

\* world.parties[i].popularity = v
AssignPartyPopularity(w, i, v) ==
    /\ nmut < MaxMut
    /\ i \in 1..Len(lists[worlds[w].parties])
    /\ party' = [party EXCEPT ![lists[worlds[w].parties][i]].popularity = validate_range(v)]
    /\ last' = [op |-> "assign_party", arg |-> w, ret |-> i, raised |-> FALSE]
    /\ nmut' = nmut + 1
    /\ UNCHANGED <<worlds, lists, company, segment, roots, calls, src, nruns>>
    /\ UNCHANGED pvars
    /\ UNCHANGED xvars

\* world.citizen_segments[i].satisfaction = v
AssignSegmentSatisfaction(w, i, v) ==
    /\ nmut < MaxMut
    /\ i \in 1..Len(lists[worlds[w].citizen_segments])
    /\ segment' = [segment EXCEPT ![lists[worlds[w].citizen_segments][i]].satisfaction = validate_range(v)]
    /\ last' = [op |-> "assign_segment", arg |-> w, ret |-> i, raised |-> FALSE]
    /\ nmut' = nmut + 1
    /\ UNCHANGED <<worlds, lists, company, party, roots, calls, src, nruns>>
    /\ UNCHANGED pvars
    /\ UNCHANGED xvars

\* world.active_policies.append(p): the caller enacts a policy, in place
AppendPolicy(w, p) ==
    /\ nmut < MaxMut
    /\ lists' = [lists EXCEPT ![worlds[w].active_policies] = Append(@, p)]
    /\ last' = [op |-> "append_policy", arg |-> w, ret |-> 0, raised |-> FALSE]
    /\ nmut' = nmut + 1
    /\ UNCHANGED <<worlds, company, party, segment, roots, calls, src, nruns>>
    /\ UNCHANGED pvars
    /\ UNCHANGED xvars

\* world.events_today.append(e): the caller adds an event of the day, in place
AppendEvent(w, e) ==
    /\ nmut < MaxMut
    /\ lists' = [lists EXCEPT ![worlds[w].events_today] = Append(@, e)]
    /\ last' = [op |-> "append_event", arg |-> w, ret |-> 0, raised |-> FALSE]
    /\ nmut' = nmut + 1
    /\ UNCHANGED <<worlds, company, party, segment, roots, calls, src, nruns>>
    /\ UNCHANGED pvars
    /\ UNCHANGED xvars

Next ==
    \/ \E w \in roots : RunDay(w)
    \/ \E w \in roots, i \in SampleIndexes, v \in SampleValues : AssignCompanyReputation(w, i, v)
    \/ \E w \in roots, i \in SampleIndexes, v \in SampleValues : AssignPartyPopularity(w, i, v)
    \/ \E w \in roots, i \in SampleIndexes, v \in SampleValues : AssignSegmentSatisfaction(w, i, v)
    \/ \E w \in roots : AppendPolicy(w, SamplePolicyDangling)
    \/ \E w \in roots : AppendEvent(w, SampleEventDangling)

Spec == Init /\ [][Next]_vars

\* ---------------------------------------------------------------- Policy objects
\* A second specification: one Policy is constructed, then ticked and assigned
\* to. pols is the heap of Policy objects; tick allocates its result.
MaxDuration == 2
MaxTicks == 3
MaxAssign == 1

\* Policy(...): the constructor accepts duration_days (gt=0) and
\* remaining_days (ge=0, validate_remaining_days_non_negative, and
\* validate_remaining_not_greater_than_duration)
PolicyAccepts(duration_days, remaining_days) ==
    /\ duration_days > 0
    /\ remaining_days >= 0
    /\ ~(remaining_days > duration_days)

\* a bug: tick updates the receiver and returns it as well
tick_call_inplace(ps, a) == Append([ps EXCEPT ![a] = tick(ps[a])], tick(ps[a]))

\* updated = policy.tick(): self.model_copy(update=...) is a new object
tick_call(ps, a) == Append(ps, tick(ps[a]))

\* policy.<f> = v under validate_assignment: the outcomes. A value the field
\* constraints refuse (remaining_days < 0, duration_days <= 0) is never
\* written. The model validator (mode="after") runs on the object once the
\* value is written; when it raises, the written value either stays or is
\* rolled back, depending on the validation library's build.
Policy_setattr(p, f, v) ==
    LET q == [p EXCEPT ![f] = v]
    IN  IF (f = "remaining_days" /\ v < 0) \/ (f = "duration_days" /\ ~(v > 0))
        THEN {[policy |-> p, raised |-> TRUE]}
        ELSE IF q.remaining_days > q.duration_days
        THEN {[policy |-> q, raised |-> TRUE], [policy |-> p, raised |-> TRUE]}
        ELSE {[policy |-> q, raised |-> FALSE]}

\* Policy(id=..., duration_days=d, remaining_days=r, is_active=act)
InitPolicy ==
    /\ \E d \in 0..MaxDuration, r \in -1..(MaxDuration + 1), act \in BOOLEAN :
          /\ PolicyAccepts(d, r)
          /\ pols = << [Policy("pol-001", "party-001", PolicyEffect("technology", 0, 0), d, r)
                           EXCEPT !.is_active = act] >>
          /\ pinfo = << [start |-> pols[1], n |-> 0] >>
    /\ plast = [op |-> "Policy", recv |-> 0, ret |-> 1, raised |-> FALSE]
    /\ nticks = 0
    /\ nassign = 0
    /\ cur = <<>>
    /\ ops = <<>>
    /\ worlds = <<>>
    /\ lists = <<>>
    /\ company = <<>>
    /\ party = <<>>
    /\ segment = <<>>
    /\ roots = {}
    /\ calls = <<>>
    /\ src = "Policy"
    /\ last = [op |-> "Policy", arg |-> 0, ret |-> 0, raised |-> FALSE]
    /\ nruns = 0
    /\ nmut = 0

\* updated = policy.tick(), for any Policy object the caller holds
Tick(a) ==
    /\ nticks < MaxTicks
    /\ pols' = tick_call(pols, a)
    /\ pinfo' = Append(pinfo, [start |-> pinfo[a].start, n |-> pinfo[a].n + 1])
    /\ plast' = [op |-> "tick", recv |-> a, ret |-> Len(pols) + 1, raised |-> FALSE]
    /\ nticks' = nticks + 1
    /\ UNCHANGED nassign
    /\ UNCHANGED wvars
    /\ UNCHANGED xvars

\* policy.<f> = v; an object that changed starts a new line of ticks
AssignPolicyField(a, f, v) ==
    /\ nassign < MaxAssign
    /\ \E out \in Policy_setattr(pols[a], f, v) :
          /\ pols' = [pols EXCEPT ![a] = out.policy]
          /\ pinfo' = IF out.policy = pols[a] THEN pinfo
                      ELSE [pinfo EXCEPT ![a] = [start |-> out.policy, n |-> 0]]
          /\ plast' = [op |-> f, recv |-> a, ret |-> v, raised |-> out.raised]
    /\ nassign' = nassign + 1
    /\ UNCHANGED nticks
    /\ UNCHANGED wvars
    /\ UNCHANGED xvars

NextPolicy ==
    \/ \E a \in 1..Len(pols) : Tick(a)
    \/ \E a \in 1..Len(pols), v \in {-1, 0, 2, 5} : AssignPolicyField(a, "remaining_days", v)
    \/ \E a \in 1..Len(pols), v \in {0, 1, 4} : AssignPolicyField(a, "duration_days", v)
    \/ \E a \in 1..Len(pols), v \in BOOLEAN : AssignPolicyField(a, "is_active", v)

SpecPolicy == InitPolicy /\ [][NextPolicy]_vars

\* ---------------------------------------------------------------- entity objects
\* A third specification: Company, Party and CitizenSegment objects are
\* constructed and assigned to on their own; company, party and segment are
\* the heaps, nmut counts the operations.
MaxEntityOps == 2

\* the values offered to a clamped field (reputation, popularity, satisfaction)
ClampValues == {-10, 0, 40, 100, 150, NaN}

\* the values offered to Company.stock_price
StockPriceValues == {-5, 0, 120, NaN}

\* the values offered to CitizenSegment.consumption_rate (hundredths)
ConsumptionRateValues == {-10, 0, 15, 100, 150, NaN}

\* a bug: an out-of-range stock price is clamped to the smallest price
validate_field_clampall(cls, f, v) ==
    IF f \in {"reputation", "popularity", "satisfaction"}
    THEN [value |-> validate_range(v), raised |-> FALSE]
    ELSE IF f = "stock_price"
    THEN [value |-> IF float_gt(v, 0) THEN v ELSE 1, raised |-> FALSE]
    ELSE IF f = "consumption_rate"
    THEN [value |-> validate_range(v), raised |-> FALSE]
    ELSE [value |-> v, raised |-> FALSE]

\* the validation of one field of class cls: the Field constraint first
\* (gt, ge, le), then the field validator; the value to store, or an error
validate_field(cls, f, v) ==
    IF f \in {"reputation", "popularity", "satisfaction"}
    THEN [value |-> validate_range(v), raised |-> FALSE]
    ELSE IF f = "stock_price"
    THEN [value |-> v, raised |-> ~float_gt(v, 0) \/ float_le(v, 0)]
    ELSE IF f = "consumption_rate"
    THEN [value |-> v,
          raised |-> ~float_ge(v, 0) \/ ~float_le(v, 100) \/ float_lt(v, 0) \/ float_gt(v, 100)]
    ELSE [value |-> v, raised |-> FALSE]

\* cls(**kw) for the fields under test: every field is validated; one error
\* raises, otherwise the object holds the validated values
construct(cls, obj, fs) ==
    IF \E f \in fs : validate_field(cls, f, obj[f]).raised
    THEN [obj |-> obj, raised |-> TRUE]
    ELSE [obj |-> [f \in DOMAIN obj |->
                      IF f \in fs THEN validate_field(cls, f, obj[f]).value ELSE obj[f]],
          raised |-> FALSE]

\* obj.f = v under validate_assignment: the validated value is stored; on an
\* error of the field's validation nothing is written
setattr(cls, obj, f, v) ==
    IF validate_field(cls, f, v).raised
    THEN [obj |-> obj, raised |-> TRUE]
    ELSE [obj |-> [obj EXCEPT ![f] = validate_field(cls, f, v).value], raised |-> FALSE]

InitEntity ==
    /\ company = <<>>
    /\ party = <<>>
    /\ segment = <<>>
    /\ last = [op |-> "none", cls |-> "none", field |-> {}, value |-> 0, ret |-> 0, raised |-> FALSE]
    /\ nmut = 0
    /\ worlds = <<>>
    /\ lists = <<>>
    /\ roots = {}
    /\ calls = <<>>
    /\ src = "entity"
    /\ nruns = 0
    /\ pols = <<>>
    /\ pinfo = <<>>
    /\ plast = [op |-> "none", recv |-> 0, ret |-> 0, raised |-> FALSE]
    /\ nticks = 0
    /\ nassign = 0
    /\ cur = <<>>
    /\ ops = <<>>

\* what every operation on the entity heaps leaves alone
EntityFrame ==
    /\ UNCHANGED <<worlds, lists, roots, calls, src, nruns>>
    /\ UNCHANGED pvars
    /\ UNCHANGED xvars

\* Company(id=..., reputation=rep, stock_price=sp)
NewCompany(rep, sp) ==
    /\ nmut < MaxEntityOps
    /\ LET out == construct("Company", Company("company-1", "Company 1", "technology", 70, 50, rep, sp, 0), {"reputation", "stock_price"})
       IN  /\ company' = IF out.raised THEN company ELSE Append(company, out.obj)
           /\ last' = [op |-> "construct", cls |-> "Company",
                       field |-> {"reputation", "stock_price"},
                       value |-> [reputation |-> rep, stock_price |-> sp],
                       ret |-> IF out.raised THEN 0 ELSE Len(company) + 1,
                       raised |-> out.raised]
    /\ nmut' = nmut + 1
    /\ UNCHANGED <<party, segment>>
    /\ EntityFrame

\* Party(id=..., popularity=pop, reputation=rep)
NewParty(pop, rep) ==
    /\ nmut < MaxEntityOps
    /\ LET out == construct("Party", Party("test-party", "Test Party", "center", pop, rep, FALSE), {"popularity", "reputation"})
       IN  /\ party' = IF out.raised THEN party ELSE Append(party, out.obj)
           /\ last' = [op |-> "construct", cls |-> "Party",
                       field |-> {"popularity", "reputation"},
                       value |-> [popularity |-> pop, reputation |-> rep],
                       ret |-> IF out.raised THEN 0 ELSE Len(party) + 1,
                       raised |-> out.raised]
    /\ nmut' = nmut + 1
    /\ UNCHANGED <<company, segment>>
    /\ EntityFrame

\* CitizenSegment(id=..., satisfaction=sat, consumption_rate=cr)
NewSegment(sat, cr) ==
    /\ nmut < MaxEntityOps
    /\ LET out == construct("CitizenSegment", CitizenSegment("test-segment", "Test Segment", 1000, 10000, sat, "center", "None", cr), {"satisfaction", "consumption_rate"})
       IN  /\ segment' = IF out.raised THEN segment ELSE Append(segment, out.obj)
           /\ last' = [op |-> "construct", cls |-> "CitizenSegment",
                       field |-> {"satisfaction", "consumption_rate"},
                       value |-> [satisfaction |-> sat, consumption_rate |-> cr],
                       ret |-> IF out.raised THEN 0 ELSE Len(segment) + 1,
                       raised |-> out.raised]
    /\ nmut' = nmut + 1
    /\ UNCHANGED <<company, party>>
    /\ EntityFrame

\* company[a].f = v
SetCompanyField(a, f, v) ==
    /\ nmut < MaxEntityOps
    /\ LET out == setattr("Company", company[a], f, v)
       IN  /\ company' = [company EXCEPT ![a] = out.obj]
           /\ last' = [op |-> "setattr", cls |-> "Company", field |-> {f},
                       value |-> (f :> v), ret |-> a, raised |-> out.raised]
    /\ nmut' = nmut + 1
    /\ UNCHANGED <<party, segment>>
    /\ EntityFrame

\* party[a].f = v
SetPartyField(a, f, v) ==
    /\ nmut < MaxEntityOps
    /\ LET out == setattr("Party", party[a], f, v)
       IN  /\ party' = [party EXCEPT ![a] = out.obj]
           /\ last' = [op |-> "setattr", cls |-> "Party", field |-> {f},
                       value |-> (f :> v), ret |-> a, raised |-> out.raised]
    /\ nmut' = nmut + 1
    /\ UNCHANGED <<company, segment>>
    /\ EntityFrame

\* segment[a].f = v
SetSegmentField(a, f, v) ==
    /\ nmut < MaxEntityOps
    /\ LET out == setattr("CitizenSegment", segment[a], f, v)
       IN  /\ segment' = [segment EXCEPT ![a] = out.obj]
           /\ last' = [op |-> "setattr", cls |-> "CitizenSegment", field |-> {f},
                       value |-> (f :> v), ret |-> a, raised |-> out.raised]
    /\ nmut' = nmut + 1
    /\ UNCHANGED <<company, party>>
    /\ EntityFrame

NextEntity ==
    \/ \E rep \in ClampValues, sp \in StockPriceValues : NewCompany(rep, sp)
    \/ \E pop \in ClampValues, rep \in ClampValues : NewParty(pop, rep)
    \/ \E sat \in ClampValues, cr \in ConsumptionRateValues : NewSegment(sat, cr)
    \/ \E a \in 1..Len(company), v \in ClampValues : SetCompanyField(a, "reputation", v)
    \/ \E a \in 1..Len(company), v \in StockPriceValues : SetCompanyField(a, "stock_price", v)
    \/ \E a \in 1..Len(party), v \in ClampValues : SetPartyField(a, "popularity", v)
    \/ \E a \in 1..Len(party), v \in ClampValues : SetPartyField(a, "reputation", v)
    \/ \E a \in 1..Len(segment), v \in ClampValues : SetSegmentField(a, "satisfaction", v)
    \/ \E a \in 1..Len(segment), v \in ConsumptionRateValues : SetSegmentField(a, "consumption_rate", v)

SpecEntity == InitEntity /\ [][NextEntity]_vars

\* ---------------------------------------------------------------- WorldState objects
\* A fourth specification: WorldState objects are constructed from any
\* arguments, copied with an update and searched by id; nruns counts the
\* operations.
MaxWorldOps == 3

\* entities that share the id of another one of their list
SampleCompanyTwin == Company("company-1", "Company 1 bis", "finance", 60, 40, 50, 300, 0)

SamplePartyTwin == Party("test-party", "Test Party bis", "left", 30, 50, TRUE)

SampleSegmentTwin == CitizenSegment("test-segment", "Test Segment bis", 2000, 500, 40, "left", "test-party", 10)

\* the argument tuples offered to the WorldState constructor
WorldArgs ==
    [day : {-1, 0},
     companies : {<<>>, <<SampleCompanyTwin, SampleCompanyA, SampleCompanyB>>},
     parties : {<<>>, <<SampleParty, SamplePartyTwin>>},
     citizen_segments : {<<>>, <<SampleSegment, SampleSegmentTwin>>},
     active_policies : {<<>>},
     events_today : {<<>>},
     history : {<<>>}]

\* the ids looked up
SampleIds == {"company-1", "company-2", "test-party", "test-segment", "nonexistent"}

\* the updates offered to model_copy: the day before, the next day, or a list
\* field replaced by an empty list
SampleUpdates == {"day-1", "day+1", "companies", "parties", "citizen_segments", "events_today"}

\* WorldState(**args): the error raised, or "ok". The field constraints
\* (day: ge=0) are checked first; the model validator (mode="after") runs only
\* on fields that passed
WorldState_init(args) ==
    IF args.day < 0 THEN "day: Input should be greater than or equal to 0"
    ELSE validate_minimum_entities(args)

InitWorld ==
    /\ worlds = <<>>
    /\ lists = <<>>
    /\ company = <<>>
    /\ party = <<>>
    /\ segment = <<>>
    /\ roots = {}
    /\ calls = <<>>
    /\ src = "world"
    /\ last = [op |-> "none", arg |-> 0, key |-> 0, ret |-> 0, raised |-> FALSE, error |-> "ok"]
    /\ nruns = 0
    /\ nmut = 0
    /\ pols = <<>>
    /\ pinfo = <<>>
    /\ plast = [op |-> "none", recv |-> 0, ret |-> 0, raised |-> FALSE]
    /\ nticks = 0
    /\ nassign = 0
    /\ cur = <<>>
    /\ ops = <<>>

\* world = WorldState(**args): on an error no object is produced
NewWorld(args) ==
    /\ nruns < MaxWorldOps
    /\ LET err == WorldState_init(args)
           nl == Len(lists)
           nc == Len(company)
           np == Len(party)
           ns == Len(segment)
       IN  IF err # "ok"
           THEN /\ UNCHANGED <<worlds, lists, company, party, segment, roots>>
                /\ last' = [op |-> "WorldState", arg |-> args, key |-> 0, ret |-> 0,
                            raised |-> TRUE, error |-> err]
           ELSE /\ company' = company \o args.companies
                /\ party' = party \o args.parties
                /\ segment' = segment \o args.citizen_segments
                /\ lists' = lists \o << [i \in 1..Len(args.companies) |-> nc + i],
                                        [i \in 1..Len(args.parties) |-> np + i],
                                        [i \in 1..Len(args.citizen_segments) |-> ns + i],
                                        args.active_policies, args.events_today, args.history >>
                /\ worlds' = Append(worlds, WorldState(args.day, nl + 1, nl + 2, nl + 3,
                                                       nl + 4, nl + 5, nl + 6))
                /\ roots' = roots \cup {Len(worlds) + 1}
                /\ last' = [op |-> "WorldState", arg |-> args, key |-> 0,
                            ret |-> Len(worlds) + 1, raised |-> FALSE, error |-> "ok"]
    /\ nruns' = nruns + 1
    /\ UNCHANGED <<calls, src, nmut>>
    /\ UNCHANGED pvars
    /\ UNCHANGED xvars

\* new = world.model_copy(update={...}): nothing is validated
ModelCopy(w, u) ==
    /\ nruns < MaxWorldOps
    /\ LET fresh == Len(lists) + 1
       IN  /\ lists' = IF u \in {"day-1", "day+1"} THEN lists ELSE Append(lists, <<>>)
           /\ worlds' = Append(worlds,
                           IF u = "day-1" THEN model_copy(worlds[w], [day |-> worlds[w].day - 1])
                           ELSE IF u = "day+1" THEN model_copy(worlds[w], [day |-> worlds[w].day + 1])
                           ELSE model_copy(worlds[w], (u :> fresh)))
    /\ roots' = roots \cup {Len(worlds) + 1}
    /\ last' = [op |-> "model_copy", arg |-> w, key |-> u, ret |-> Len(worlds) + 1,
                raised |-> FALSE, error |-> "ok"]
    /\ nruns' = nruns + 1
    /\ UNCHANGED <<company, party, segment, calls, src, nmut>>
    /\ UNCHANGED pvars
    /\ UNCHANGED xvars

\* found = world.get_<kind>_by_id(id)
Lookup(w, kind, id) ==
    /\ nruns < MaxWorldOps
    /\ last' = [op |-> kind, arg |-> w, key |-> id,
                ret |-> IF kind = "get_company_by_id" THEN get_company_by_id(w, id)
                        ELSE IF kind = "get_party_by_id" THEN get_party_by_id(w, id)
                        ELSE get_segment_by_id(w, id),
                raised |-> FALSE, error |-> "ok"]
    /\ nruns' = nruns + 1
    /\ UNCHANGED <<worlds, lists, company, party, segment, roots, calls, src, nmut>>
    /\ UNCHANGED pvars
    /\ UNCHANGED xvars

NextWorld ==
    \/ \E args \in WorldArgs : NewWorld(args)
    \/ \E w \in roots, u \in SampleUpdates : ModelCopy(w, u)
    \/ \E w \in roots, id \in SampleIds : Lookup(w, "get_company_by_id", id)
    \/ \E w \in roots, id \in SampleIds : Lookup(w, "get_party_by_id", id)
    \/ \E w \in roots, id \in SampleIds : Lookup(w, "get_segment_by_id", id)

SpecWorld == InitWorld /\ [][NextWorld]_vars

\* ---------------------------------------------------------------- two simulations
\* A fifth specification: two worlds are built by two separate calls with the
\* same arguments, and each simulation runs days and assigns entity fields on
\* the world it holds, in any interleaving. Both live on the one heap of the
\* process. ops[s] starts with the construction.
MaxPairOps == 2

\* a world built by hand that holds policies, events and history
SamplePairArgs ==
    [day |-> 1, companies |-> <<SampleCompanyA, SampleCompanyB>>,
     parties |-> <<SampleParty>>, citizen_segments |-> <<SampleSegment>>,
     active_policies |-> <<SamplePolicyDangling, SamplePolicyLastDay>>,
     events_today |-> <<SampleEventDangling>>, history |-> <<SampleSummary>>]

\* the arguments the two simulations start from
PairArgs == {create_initial_world, SamplePairArgs}

\* the operations a simulation runs on the world it holds
PairOps ==
    {[kind |-> "run_day", i |-> 0, v |-> 0],
     [kind |-> "company", i |-> 1, v |-> -10],
     [kind |-> "party", i |-> 1, v |-> 150],
     [kind |-> "segment", i |-> 1, v |-> 40]}

\* the heap of a process that has built nothing yet
EmptyHeap ==
    [worlds |-> <<>>, lists |-> <<>>, company |-> <<>>, party |-> <<>>,
     segment |-> <<>>, w |-> 0, err |-> FALSE]

\* a bug: the entities are module-level singletons, so a second world holds
\* the entity lists of the first
allocate_singleton(m, args) ==
    LET nl == Len(m.lists)
    IN  IF m.worlds = <<>>
        THEN [m EXCEPT !.company = args.companies,
                       !.party = args.parties,
                       !.segment = args.citizen_segments,
                       !.lists = << [i \in 1..Len(args.companies) |-> i],
                                    [i \in 1..Len(args.parties) |-> i],
                                    [i \in 1..Len(args.citizen_segments) |-> i],
                                    args.active_policies, args.events_today, args.history >>,
                       !.worlds = << WorldState(args.day, 1, 2, 3, 4, 5, 6) >>,
                       !.w = 1]
        ELSE [m EXCEPT !.lists = @ \o << args.active_policies, args.events_today, args.history >>,
                       !.worlds = Append(@, WorldState(args.day, m.worlds[1].companies,
                                                       m.worlds[1].parties,
                                                       m.worlds[1].citizen_segments,
                                                       nl + 1, nl + 2, nl + 3)),
                       !.w = Len(m.worlds) + 1]

\* WorldState(**args) with accepted arguments on the heap of m: every call
\* builds its own entity objects and lists (the factory functions build the
\* entities in their bodies); m.w is the new WorldState
allocate(m, args) ==
    LET nl == Len(m.lists)
        nc == Len(m.company)
        np == Len(m.party)
        ns == Len(m.segment)
    IN  [m EXCEPT !.company = @ \o args.companies,
                  !.party = @ \o args.parties,
                  !.segment = @ \o args.citizen_segments,
                  !.lists = @ \o << [i \in 1..Len(args.companies) |-> nc + i],
                                    [i \in 1..Len(args.parties) |-> np + i],
                                    [i \in 1..Len(args.citizen_segments) |-> ns + i],
                                    args.active_policies, args.events_today, args.history >>,
                  !.worlds = Append(@, WorldState(args.day, nl + 1, nl + 2, nl + 3,
                                                  nl + 4, nl + 5, nl + 6)),
                  !.w = Len(m.worlds) + 1]

\* world.<entities>[i].<clamped field> = v on the heap of m, world = m.w
assign(m, op) ==
    IF op.kind = "company"
    THEN [m EXCEPT !.company[m.lists[m.worlds[m.w].companies][op.i]].reputation = validate_range(op.v)]
    ELSE IF op.kind = "party"
    THEN [m EXCEPT !.party[m.lists[m.worlds[m.w].parties][op.i]].popularity = validate_range(op.v)]
    ELSE [m EXCEPT !.segment[m.lists[m.worlds[m.w].citizen_segments][op.i]].satisfaction = validate_range(op.v)]

\* one operation of a simulation whose world is m.w
apply(m, op) ==
    IF op.kind = "WorldState" THEN allocate(m, op.args)
    ELSE IF op.kind = "run_day" THEN run_day(m)
    ELSE assign(m, op)

InitPair ==
    /\ \E args \in PairArgs :
          /\ WorldStateAccepts(args)
          /\ LET m == allocate(allocate(EmptyHeap, args), args)
             IN  /\ worlds = m.worlds
                 /\ lists = m.lists
                 /\ company = m.company
                 /\ party = m.party
                 /\ segment = m.segment
          /\ ops = << <<[kind |-> "WorldState", args |-> args]>>,
                      <<[kind |-> "WorldState", args |-> args]>> >>
    /\ cur = <<1, 2>>
    /\ roots = {1, 2}
    /\ calls = <<>>
    /\ src = "pair"
    /\ last = [op |-> "WorldState", sim |-> 2, ret |-> 2, raised |-> FALSE]
    /\ nruns = 0
    /\ nmut = 0
    /\ pols = <<>>
    /\ pinfo = <<>>
    /\ plast = [op |-> "none", recv |-> 0, ret |-> 0, raised |-> FALSE]
    /\ nticks = 0
    /\ nassign = 0

\* simulation s runs one operation on the world it holds and keeps the result
PairStep(s, op) ==
    /\ Len(ops[s]) < MaxPairOps + 1
    /\ LET m == apply(Enter(cur[s]), op)
       IN  /\ worlds' = m.worlds
           /\ lists' = m.lists
           /\ company' = m.company
           /\ party' = m.party
           /\ segment' = m.segment
           /\ cur' = [cur EXCEPT ![s] = m.w]
           /\ roots' = roots \cup {m.w}
           /\ last' = [op |-> op.kind, sim |-> s, ret |-> m.w, raised |-> m.err]
    /\ ops' = [ops EXCEPT ![s] = Append(@, op)]
    /\ UNCHANGED <<calls, src, nruns, nmut>>
    /\ UNCHANGED pvars

NextPair ==
    \/ \E op \in PairOps : PairStep(1, op)
    \/ \E op \in PairOps : PairStep(2, op)

SpecPair == InitPair /\ [][NextPair]_vars

\* ---------------------------------------------------------------- properties
\* the step is a run_day call
IsRunDayStep == nruns' # nruns

\* the step is a mutation by the caller
IsMutationStep == nmut' # nmut

\* the value, after the step, of the world at address w
ViewAfter(w) == View(worlds', lists', company', party', segment', w)

\* the ids of a sequence of entities
Ids(es) == {es[i].id : i \in 1..Len(es)}

\* C1: every run_day call returns a world whose day is the day the input had
\* on entry plus 1, so a world reached by n calls has the first world's day + n.
C1_DayIncrementsByOne ==
    [][IsRunDayStep =>
          /\ ~last'.raised
          /\ worlds'[last'.ret].day = worlds[last'.arg].day + 1
          /\ \A w \in roots' : worlds'[w].day = worlds'[1].day + calls'[w]]_vars

C1_Witness ==
    /\ last.op = "run_day"
    /\ ~last.raised
    /\ calls[last.ret] >= 2
    /\ worlds[last.ret].day = worlds[1].day + calls[last.ret]

\* C2 (as claimed): the history of the world run_day returns has exactly one
\* more entry than the input's, and the last entry is stamped with the input's day.
C2_HistoryGrowsByOne ==
    last.op = "run_day" =>
        /\ ~last.raised
        /\ Len(lists[worlds[last.ret].history]) = Len(lists[worlds[last.arg].history]) + 1
        /\ lists[worlds[last.ret].history][Len(lists[worlds[last.ret].history])].day
              = worlds[last.arg].day

\* C3 (as claimed): N run_day calls from create_initial_world() give day = N,
\* N history entries, and history[k].day = k for every k < N.
C3_FactoryRunShape ==
    (src = "create_initial_world" /\ nmut = 0) =>
        \A w \in roots :
            /\ worlds[w].day = calls[w]
            /\ Len(lists[worlds[w].history]) = calls[w]
            /\ \A k \in 1..Len(lists[worlds[w].history]) :
                  lists[worlds[w].history][k].day = k - 1

\* C4: run_day keeps every history entry of its input at its index: the
\* input's history on entry is a prefix of the result's history.
C4_HistoryAppendOnly ==
    [][IsRunDayStep =>
          /\ ~last'.raised
          /\ LET old == lists[worlds[last'.arg].history]
                 new == lists'[worlds'[last'.ret].history]
             IN  /\ Len(new) >= Len(old)
                 /\ \A k \in 1..Len(old) : new[k] = old[k]]_vars

C4_Witness ==
    /\ last.op = "run_day"
    /\ ~last.raised
    /\ calls[last.ret] >= 2
    /\ Len(lists[worlds[last.arg].history]) >= 1
    /\ lists[worlds[last.ret].history][1] = SampleSummary

\* C5: run_day never raises on a world that satisfies the container
\* invariants, whatever its policies and events refer to: it returns a world.
C5_RunDayNeverRaises ==
    last.op = "run_day" =>
        /\ ~last.raised
        /\ last.ret \in 1..Len(worlds)
        /\ last.ret \in roots
        /\ worlds[last.ret].day > worlds[last.arg].day

\* a run_day call on a world with a policy proposed by no existing party
C5_Witness ==
    /\ last.op = "run_day"
    /\ ~last.raised
    /\ \E i \in 1..Len(DeepView(last.arg).active_policies) :
          DeepView(last.arg).active_policies[i].proposed_by_party_id
              \notin Ids(DeepView(last.arg).parties)

\* C6: every WorldState on the heap, the ones a phase produced included, has
\* at least one company, one party and one citizen segment, and day >= 0.
C6_ContainerInvariant ==
    \A w \in 1..Len(worlds) :
        /\ Len(lists[worlds[w].companies]) >= 1
        /\ Len(lists[worlds[w].parties]) >= 1
        /\ Len(lists[worlds[w].citizen_segments]) >= 1
        /\ worlds[w].day >= 0

\* two calls in a row on a world whose only company has no cash
C6_Witness ==
    /\ last.op = "run_day"
    /\ calls[last.ret] >= 2
    /\ Len(DeepView(last.ret).companies) = 1
    /\ DeepView(last.ret).companies[1].cash = 0

\* C7: run_day returns a world with as many companies, parties and citizen
\* segments as its input had on entry, with the same sets of ids.
C7_EntitiesPreserved ==
    [][IsRunDayStep =>
          /\ ~last'.raised
          /\ LET old == DeepView(last'.arg)
                 new == ViewAfter(last'.ret)
             IN  /\ Len(new.companies) = Len(old.companies)
                 /\ Ids(new.companies) = Ids(old.companies)
                 /\ Len(new.parties) = Len(old.parties)
                 /\ Ids(new.parties) = Ids(old.parties)
                 /\ Len(new.citizen_segments) = Len(old.citizen_segments)
                 /\ Ids(new.citizen_segments) = Ids(old.citizen_segments)]_vars

C7_Witness ==
    /\ last.op = "run_day"
    /\ ~last.raised
    /\ Ids(DeepView(last.ret).companies) = {"company-1", "company-2"}
    /\ Len(DeepView(last.ret).parties) = 1

\* C8: a run_day call leaves its input object and everything reachable from
\* it as it was on entry, and the world it returns is a new object.
C8_InputNotMutated ==
    [][IsRunDayStep =>
          /\ ~last'.raised
          /\ worlds'[last'.arg] = worlds[last'.arg]
          /\ ViewAfter(last'.arg) = DeepView(last'.arg)
          /\ last'.ret # last'.arg
          /\ last'.ret \notin 1..Len(worlds)]_vars

\* a call whose input held an event of the day, and still holds it
C8_Witness ==
    /\ last.op = "run_day"
    /\ ~last.raised
    /\ Len(DeepView(last.arg).events_today) >= 1
    /\ Len(DeepView(last.ret).events_today) = 0

\* C9 (as claimed): right after w2 = run_day(w), a mutation made through w2
\* leaves the value of w unchanged, and one made through w leaves w2 unchanged.
C9_NoSharingAcrossInstants ==
    [][(IsMutationStep /\ last.op = "run_day" /\ ~last.raised) =>
          /\ last'.arg = last.ret => ViewAfter(last.arg) = DeepView(last.arg)
          /\ last'.arg = last.arg => ViewAfter(last.ret) = DeepView(last.ret)]_vars

\* C9 (amended): the worlds of one lineage are distinct objects with their own
\* day field and their own events_today list, but they hold the same
\* companies, parties, citizen_segments, active_policies and history list
\* objects, so they show the same entities and policies after any mutation.
C9_EntitiesSharedByReference ==
    \A x, y \in roots :
        /\ worlds[x].companies = worlds[y].companies
        /\ worlds[x].parties = worlds[y].parties
        /\ worlds[x].citizen_segments = worlds[y].citizen_segments
        /\ worlds[x].active_policies = worlds[y].active_policies
        /\ worlds[x].history = worlds[y].history
        /\ DeepView(x).companies = DeepView(y).companies
        /\ DeepView(x).parties = DeepView(y).parties
        /\ DeepView(x).citizen_segments = DeepView(y).citizen_segments
        /\ DeepView(x).active_policies = DeepView(y).active_policies
        /\ x # y => worlds[x].events_today # worlds[y].events_today

\* a reputation assigned through the returned world is read through the input
C9_Witness ==
    /\ last.op = "assign_company"
    /\ calls[last.arg] >= 1
    /\ Cardinality(roots) >= 2
    /\ DeepView(1).companies[last.ret].reputation = 100
    /\ DeepView(last.arg).companies[last.ret].reputation = 100

\* the policies of a list after one tick each, the expired ones removed
TickedAndPruned(ps) ==
    SelectSeq([i \in 1..Len(ps) |-> tick(ps[i])], LAMBDA p : p.remaining_days > 0)

\* C10 (as claimed): run_day returns a world whose active_policies are the
\* input's policies ticked exactly once, without those that reached 0.
C10_PoliciesTickedOnce ==
    last.op = "run_day" =>
        /\ ~last.raised
        /\ DeepView(last.ret).active_policies
              = TickedAndPruned(DeepView(last.arg).active_policies)

\* C11: the world run_day returns holds no event of the day: whatever the
\* input's events_today held, none carries over (the generator adds none).
C11_EventsCleared ==
    last.op = "run_day" =>
        /\ ~last.raised
        /\ DeepView(last.ret).events_today = <<>>
        /\ \A i \in 1..Len(DeepView(last.arg).events_today) :
              DeepView(last.arg).events_today[i] \notin Range(DeepView(last.ret).events_today)

\* a call on a world that held two events of the day, one added by the caller
C11_Witness ==
    /\ last.op = "run_day"
    /\ ~last.raised
    /\ Len(DeepView(last.arg).events_today) = 2
    /\ SampleEventDangling \in Range(DeepView(last.arg).events_today)
    /\ DeepView(last.ret).events_today = <<>>

\* ---- the summary run_day is to append (C12..C16)
\* the sum of f[i] over the positions of a sequence of numbers
RECURSIVE SumSeq(_)
SumSeq(f) == IF Len(f) = 0 THEN 0 ELSE f[1] + SumSeq(Tail(f))

\* the call appended exactly one entry to the history
AppendedOne == Len(DeepView(last.ret).history) = Len(DeepView(last.arg).history) + 1

\* the entry the call appended
Appended == DeepView(last.ret).history[Len(DeepView(last.ret).history)]

\* position of company i of cs when ranked by revenue descending, ties in list order
RevenueRank(cs, i) ==
    1 + Cardinality({j \in 1..Len(cs) :
            \/ cs[j].last_day_revenue > cs[i].last_day_revenue
            \/ cs[j].last_day_revenue = cs[i].last_day_revenue /\ j < i})

\* the summaries of the top n companies of cs by revenue
TopCompanies(cs, n) ==
    [r \in 1..(IF Len(cs) < n THEN Len(cs) ELSE n) |->
        LET c == cs[CHOOSE i \in 1..Len(cs) : RevenueRank(cs, i) = r]
        IN  CompanySummary(c.id, c.name, c.stock_price, c.reputation, c.last_day_revenue)]

\* C12 (as claimed): the summary run_day appends has total_revenue = the sum
\* of last_day_revenue and average_stock_price = the mean of stock_price over
\* all companies (stated without division: mean * count = sum).
C12_RevenueAndStockPrice ==
    last.op = "run_day" =>
        /\ ~last.raised
        /\ AppendedOne
        /\ LET cs == DeepView(last.arg).companies
           IN  /\ Appended.total_revenue = SumSeq([i \in 1..Len(cs) |-> cs[i].last_day_revenue])
               /\ Appended.average_stock_price * Len(cs)
                     = SumSeq([i \in 1..Len(cs) |-> cs[i].stock_price])

\* C13 (as claimed): the summary run_day appends has average_satisfaction =
\* sum(satisfaction_i * size_i) / sum(size_i) over the segments, within [0, 100].
C13_WeightedSatisfaction ==
    last.op = "run_day" =>
        /\ ~last.raised
        /\ AppendedOne
        /\ LET ss == DeepView(last.arg).citizen_segments
           IN  /\ Appended.average_satisfaction * SumSeq([i \in 1..Len(ss) |-> ss[i].size])
                     = SumSeq([i \in 1..Len(ss) |-> ss[i].satisfaction * ss[i].size])
               /\ Appended.average_satisfaction >= 0
               /\ Appended.average_satisfaction <= 100

\* C14 (as claimed): the summary run_day appends lists min(5, n) companies,
\* those of highest last_day_revenue, descending, ties in list order, each
\* with the company's id, name, stock_price, reputation and revenue.
C14_TopCompanies ==
    last.op = "run_day" =>
        /\ ~last.raised
        /\ AppendedOne
        /\ Appended.top_companies = TopCompanies(DeepView(last.arg).companies, 5)

\* C15 (as claimed): the summary run_day appends has one PartySummary per
\* party, in party order, with the party's id, name, popularity and reputation.
C15_PartySummaries ==
    last.op = "run_day" =>
        /\ ~last.raised
        /\ AppendedOne
        /\ LET ps == DeepView(last.arg).parties
           IN  Appended.parties = [i \in 1..Len(ps) |->
                   PartySummary(ps[i].id, ps[i].name, ps[i].popularity, ps[i].reputation)]

\* C16 (as claimed): the summary run_day appends counts the events of the day
\* and the active policies as they stand when the summary phase runs, which is
\* how the returned world holds them.
C16_EventAndPolicyCounts ==
    last.op = "run_day" =>
        /\ ~last.raised
        /\ AppendedOne
        /\ Appended.events_count = Len(DeepView(last.ret).events_today)
        /\ Appended.active_policies_count = Len(DeepView(last.ret).active_policies)

\* ---- Policy.tick and the Policy invariants (C17..C20), under SpecPolicy
\* the step is a tick call
IsTickStep == nticks' # nticks

\* C17: a tick lowers remaining_days by exactly 1 while it is positive and
\* leaves it at 0 when it is 0; ticking a policy that a tick already expired
\* returns a policy equal to it.
C17_TickDecrementsFlooredAtZero ==
    [][IsTickStep =>
          LET old == pols[plast'.recv]
              new == pols'[plast'.ret]
          IN  /\ old.remaining_days > 0 => new.remaining_days = old.remaining_days - 1
              /\ old.remaining_days = 0 => new.remaining_days = 0
              /\ new.remaining_days >= 0
              /\ (old.remaining_days = 0 /\ pinfo[plast'.recv].n >= 1) => new = old]_vars

\* an expired result of a tick was ticked again
C17_Witness ==
    /\ plast.op = "tick"
    /\ pinfo[plast.ret].n >= 2
    /\ pols[plast.recv].remaining_days = 0
    /\ pols[plast.ret] = pols[plast.recv]
    /\ pinfo[plast.ret].start.remaining_days >= 1

\* C18: on a line of ticks that started from an active policy with
\* remaining_days = n >= 1, is_active is true after each of the first n - 1
\* ticks and false after the n-th and every later one.
C18_ActiveUntilExpiry ==
    \A a \in 1..Len(pols) :
        (pinfo[a].start.is_active /\ pinfo[a].start.remaining_days >= 1) =>
            /\ pols[a].is_active <=> (pinfo[a].n < pinfo[a].start.remaining_days)
            /\ pinfo[a].n >= 1 => (pols[a].is_active <=> (pols[a].remaining_days > 0))

\* a policy of two remaining days, still active after one tick, off after three
C18_Witness ==
    /\ Len(pols) >= 4
    /\ \E a, b \in 1..Len(pols) :
          /\ pinfo[a].start = pinfo[b].start
          /\ pinfo[a].start.is_active
          /\ pinfo[a].start.remaining_days = 2
          /\ pinfo[a].n = 1 /\ pols[a].is_active
          /\ pinfo[b].n = 3 /\ ~pols[b].is_active

C20_PolicyInvariant ==
    /\ \A a \in 1..Len(pols) :
          /\ pols[a].remaining_days >= 0
          /\ pols[a].remaining_days <= pols[a].duration_days
          /\ pols[a].duration_days > 0
    /\ (plast.op \in {"remaining_days", "duration_days"} /\ ~plast.raised) =>
          LET v == plast.ret
          IN  pols[plast.recv][plast.op] = v

\* the step is an operation on the entity heaps
IsEntityStep == src = "entity" /\ nmut' # nmut

\* the object the last entity operation built or assigned to
LastObject ==
    IF last.cls = "Company" THEN company[last.ret]
    ELSE IF last.cls = "Party" THEN party[last.ret]
    ELSE segment[last.ret]

\* the clamped fields of the entity classes
ClampedFields == {"reputation", "popularity", "satisfaction"}

\* the rejecting fields under test
RejectFields == {"stock_price", "consumption_rate"}

\* the value lies in the allowed range of the rejecting field
InsideRange(f, v) ==
    IF f = "stock_price" THEN float_gt(v, 0) ELSE float_ge(v, 0) /\ float_le(v, 100)

\* every clamped field of every object lies in [0, 100]
AllClampedInRange ==
    /\ \A a \in 1..Len(company) : float_ge(company[a].reputation, 0) /\ float_le(company[a].reputation, 100)
    /\ \A a \in 1..Len(party) :
          /\ float_ge(party[a].popularity, 0) /\ float_le(party[a].popularity, 100)
          /\ float_ge(party[a].reputation, 0) /\ float_le(party[a].reputation, 100)
    /\ \A a \in 1..Len(segment) : float_ge(segment[a].satisfaction, 0) /\ float_le(segment[a].satisfaction, 100)

\* C21 (as claimed): a construction or assignment gives a clamped field 0 for
\* a value < 0, 100 for a value > 100 and the value itself inside [0, 100],
\* an assignment to a clamped field never raises, and after any sequence of
\* constructions and assignments every clamped field lies in [0, 100].
C21_ClampLaws ==
    [][IsEntityStep =>
          /\ (last'.op = "setattr" /\ last'.field \subseteq ClampedFields) => ~last'.raised
          /\ ~last'.raised =>
                \A f \in last'.field \cap ClampedFields :
                    LET v == last'.value[f]
                        stored == LastObject'[f]
                    IN  /\ float_lt(v, 0) => stored = 0
                        /\ float_gt(v, 100) => stored = 100
                        /\ (float_ge(v, 0) /\ float_le(v, 100)) => stored = v
          /\ AllClampedInRange']_vars

\* C22: a construction with, or an assignment of, a stock_price <= 0 or a
\* consumption_rate outside [0, 1] raises and stores nothing (no object is
\* built, the assigned object keeps its value); a construction or assignment
\* whose values are inside the ranges does not raise and stores them unchanged.
C22_RejectLaws ==
    [][(IsEntityStep /\ last'.field \cap RejectFields # {}) =>
          /\ last'.raised <=> \E f \in last'.field \cap RejectFields : ~InsideRange(f, last'.value[f])
          /\ (\E f \in last'.field : f = "stock_price" /\ float_le(last'.value[f], 0)) => last'.raised
          /\ last'.raised => <<company', party', segment'>> = <<company, party, segment>>
          /\ ~last'.raised =>
                \A f \in last'.field \cap RejectFields : LastObject'[f] = last'.value[f]]_vars

C22_Witness ==
    /\ last.op = "setattr"
    /\ last.cls = "CitizenSegment"
    /\ last.field = {"consumption_rate"}
    /\ last.value["consumption_rate"] = 150
    /\ last.raised
    /\ segment[last.ret].consumption_rate = 15

\* the step is a WorldState(...) call
IsNewWorldStep == src = "world" /\ nruns' # nruns /\ last'.op = "WorldState"

\* the fields of the arguments that break a constraint of WorldState
WrongFields(args) ==
    {f \in {"companies", "parties", "citizen_segments"} : Len(args[f]) = 0}
        \cup (IF args.day < 0 THEN {"day"} ELSE {})

\* the field a validation error of WorldState names
NamedField(error) ==
    IF error = "day: Input should be greater than or equal to 0" THEN "day"
    ELSE IF error = "WorldState requiere al menos 1 empresa" THEN "companies"
    ELSE IF error = "WorldState requiere al menos 1 partido politico" THEN "parties"
    ELSE IF error = "WorldState requiere al menos 1 segmento ciudadano" THEN "citizen_segments"
    ELSE "none"

\* C23: WorldState(...) with an empty companies, parties or citizen_segments
\* list or a negative day raises an error that names one of the fields that
\* are wrong (the only one, when one is wrong) and produces no WorldState;
\* with valid arguments it returns a WorldState.
C23_ConstructionRejects ==
    [][IsNewWorldStep =>
          IF WrongFields(last'.arg) # {}
          THEN /\ last'.raised
               /\ NamedField(last'.error) \in WrongFields(last'.arg)
               /\ worlds' = worlds
               /\ roots' = roots
          ELSE /\ ~last'.raised
               /\ Len(worlds') = Len(worlds) + 1]_vars

C23_Witness ==
    /\ last.op = "WorldState"
    /\ last.raised
    /\ WrongFields(last.arg) = {"parties"}
    /\ NamedField(last.error) = "parties"
    /\ Len(worlds) = 1

\* C24 (as claimed): no WorldState can be obtained, by construction or by a
\* copy with fields replaced, that has a negative day or an empty companies,
\* parties or citizen_segments list.
C24_ReconstructionChecked ==
    \A w \in 1..Len(worlds) :
        /\ worlds[w].day >= 0
        /\ Len(lists[worlds[w].companies]) >= 1
        /\ Len(lists[worlds[w].parties]) >= 1
        /\ Len(lists[worlds[w].citizen_segments]) >= 1

\* the step is a lookup by id
IsLookupStep == src = "world" /\ nruns' # nruns /\ last'.op \in {"get_company_by_id", "get_party_by_id", "get_segment_by_id"}

\* the list a lookup scans
Scanned(w, kind) ==
    IF kind = "get_company_by_id" THEN DeepView(w).companies
    ELSE IF kind = "get_party_by_id" THEN DeepView(w).parties
    ELSE DeepView(w).citizen_segments

\* C25: a lookup by id returns the first entity of the list, in list order,
\* whose id is the argument, and None when the list has no such entity; it
\* never raises and changes nothing in the WorldState.
C25_LookupFirstMatch ==
    [][IsLookupStep =>
          LET es == Scanned(last'.arg, last'.op)
          IN  /\ ~last'.raised
              /\ IF \A i \in 1..Len(es) : es[i].id # last'.key
                 THEN last'.ret = "None"
                 ELSE \E i \in 1..Len(es) :
                         /\ es[i].id = last'.key
                         /\ \A j \in 1..(i - 1) : es[j].id # last'.key
                         /\ last'.ret = es[i]
              /\ UNCHANGED <<worlds, lists, company, party, segment, roots>>]_vars

C25_Witness ==
    /\ last.op = "get_company_by_id"
    /\ last.key = "company-1"
    /\ Len(DeepView(last.arg).companies) = 3
    /\ DeepView(last.arg).companies[2].id = "company-1"
    /\ last.ret = SampleCompanyTwin

\* C26: the WorldState create_initial_world() returns has day 0, an empty
\* history, events_today and active_policies, at least one company in every
\* Sector, exactly one party in government, and every citizen segment prefers
\* no party or a party of the world.
C26_FactoryWorld ==
    (src = "create_initial_world" /\ last.op = "create_initial_world") =>
        LET w == DeepView(last.ret)
        IN  /\ w.day = 0
            /\ w.history = <<>>
            /\ w.events_today = <<>>
            /\ w.active_policies = <<>>
            /\ \A sector \in Sector : \E i \in 1..Len(w.companies) : w.companies[i].sector = sector
            /\ Cardinality({i \in 1..Len(w.parties) : w.parties[i].in_government}) = 1
            /\ \A i \in 1..Len(w.citizen_segments) :
                  \/ w.citizen_segments[i].preferred_party_id = "None"
                  \/ w.citizen_segments[i].preferred_party_id \in Ids(w.parties)

C26_Witness ==
    /\ src = "create_initial_world"
    /\ last.op = "create_initial_world"
    /\ worlds[last.ret].day = 0
    /\ Len(lists[worlds[last.ret].companies]) = 8
    /\ party[lists[worlds[last.ret].parties][2]].in_government
    /\ segment[lists[worlds[last.ret].citizen_segments][4]].preferred_party_id = "party-left"

\* C29: the policy a tick returns is active exactly when its remaining_days
\* is positive, whatever is_active the receiver had: a receiver switched off
\* with remaining_days >= 2 gives an active policy, and a receiver that is
\* active with remaining_days = 0 gives an inactive one.
C29_ActiveDerivedFromRemaining ==
    [][IsTickStep =>
          LET old == pols[plast'.recv]
              new == pols'[plast'.ret]
          IN  /\ new.is_active <=> new.remaining_days > 0
              /\ (~old.is_active /\ old.remaining_days >= 2) => new.is_active
              /\ (old.is_active /\ old.remaining_days = 0) => ~new.is_active]_vars

C29_Witness ==
    /\ plast.op = "tick"
    /\ ~pols[plast.recv].is_active
    /\ pols[plast.recv].remaining_days = 2
    /\ pols[plast.ret].is_active
    /\ pols[plast.ret].remaining_days = 1
    /\ \E a \in 1..Len(pols) : pinfo[a].n = 0 /\ pols[a].is_active /\ pols[a].remaining_days = 0

RECURSIVE Alone(_)
Alone(q) ==
    IF q = <<>> THEN EmptyHeap ELSE apply(Alone(SubSeq(q, 1, Len(q) - 1)), q[Len(q)])

\* the value of the world a machine state holds
ViewOf(m) == View(m.worlds, m.lists, m.company, m.party, m.segment, m.w)

\* C27: two worlds built equal, taken through the same operations (run_day
\* calls, and the same assignments), are equal in every field after each of
\* them, although they are different objects built and advanced at different
\* moments of the process.
C27_RunDayDeterministic ==
    (src = "pair" /\ ops[1] = ops[2]) =>
        /\ cur[1] # cur[2]
        /\ DeepView(cur[1]) = DeepView(cur[2])

C27_Witness ==
    /\ src = "pair"
    /\ ops[1] = ops[2]
    /\ Len(ops[1]) = 3
    /\ ops[1][2].kind = "run_day"
    /\ ops[1][3].kind = "run_day"
    /\ ops[1][1].args = create_initial_world
    /\ DeepView(cur[1]).day = 2
    /\ DeepView(cur[2]).day = 2

\* C28: whatever the interleaving of the run_day calls and field assignments
\* of two simulations, each holds the world it would hold had its own
\* operations run alone.
C28_SimulationsIndependent ==
    src = "pair" =>
        \A s \in {1, 2} : DeepView(cur[s]) = ViewOf(Alone(ops[s]))

C28_Witness ==
    /\ src = "pair"
    /\ Len(ops[1]) = 3
    /\ Len(ops[2]) = 3
    /\ last.sim = 1
    /\ ops[1][2].kind = "company"
    /\ ops[1][3].kind = "run_day"
    /\ ops[2][2].kind = "run_day"
    /\ ops[2][3].kind = "party"
    /\ DeepView(cur[1]).companies[1].reputation = 0
    /\ DeepView(cur[2]).companies[1].reputation # 0
    /\ DeepView(cur[2]).parties[1].popularity = 100
    /\ DeepView(cur[1]).parties[1].popularity # 100

====
